---- MODULE Spec2Model ----
(***************************************************************************)
(* The federated leave handshake of federationapi/routing/leave.go:        *)
(* MakeLeave (/make_leave) and SendLeave (/send_leave).  A handler runs as *)
(* a sequence of steps, one per call to an external collaborator (the      *)
(* roomserver, the key ring); the local checks between two calls belong to *)
(* the step of the call before them.                                       *)
(***************************************************************************)
EXTENDS Naturals, Sequences, FiniteSets

\* Number of requests the federation transport hands to the handlers in one
\* behaviour.
MaxRequests == 2

\* Handler slots.  Spec runs the requests one after another in slot h1.
Procs == {"h1", "h2"}
SeqProcs == {"h1"}

\* cfg.Matrix.ServerName: the local (resident) server.
ServerName == "a.org"

\* Remote servers that call the federation API.
Servers == {"b.org", "c.org"}

\* Room IDs that appear in request paths and event bodies: a room with state,
\* a room the roomserver has a version for but no state yet, and a room the
\* roomserver has never heard of.
Rooms == {"!r:a.org", "!s:a.org", "!x:a.org"}

EventIDs == {"$e1", "$e2"}

\* User IDs as the characters gomatrixserverlib.SplitID looks at: the sigil,
\* the localpart, the ':' separator and the domain.
UserB == <<"@", "u", ":", "b.org">>
UserC == <<"@", "v", ":", "c.org">>
NoSigilUser == <<"u", ":", "b.org">>
NoDomainUser == <<"@", "u">>
EmptyDomainUser == <<"@", "u", ":">>
EmptyLocalUser == <<"@", ":", "b.org">>
Users == {UserB, UserC}
UserIDs == Users \cup {NoSigilUser, NoDomainUser, EmptyDomainUser, EmptyLocalUser}
NoUser == <<>>

Leave == "leave"
Join == "join"
MRoomMember == "m.room.member"

\* Error values the collaborators return.
Nil == "nil"
TransportErrors == {"context canceled", "connection refused"}
ErrRoomNotFound == "room not found"
ErrRoomNoExists == "Room does not exist"
ErrBadJSON == "BadJSONError"
ErrNotAMember == "sender is not in the room"
ErrNotMembership == "not an m.room.member event"
ErrInvalidID == "invalid ID"
ErrNotJSON == "invalid JSON"

NoVersion == "none"

\* What the roomserver's room table holds (room -> room version).
RoomVersionOf(roomID) ==
    CASE roomID = "!r:a.org" -> "1"
      [] roomID = "!s:a.org" -> "5"
      [] OTHER -> NoVersion

\* Rooms with latest events and state to build against.
RoomsWithState == {"!r:a.org"}

----------------------------------------------------------------------------
\* Events and request bodies

NoEvent ==
    [room_id |-> "none", event_id |-> "none", origin |-> "none", sender |-> NoUser,
     state_key |-> NoUser, type |-> "none", membership |-> "none", sig |-> "none",
     room_version |-> NoVersion]

\* The events a request body can decode to.  sig is what the key ring will
\* find for the signature of `origin` at origin_server_ts.
BodyEvents ==
    [room_id : Rooms, event_id : EventIDs, origin : Servers, sender : Users,
     type : {MRoomMember, "m.room.message"}, membership : {Leave, Join},
     sig : {"valid", "invalid", "expired"}]

NotJSONBody == [json |-> FALSE, event |-> NoEvent]

EventBody(e) ==
    [json |-> TRUE,
     event |-> [room_id |-> e.room_id, event_id |-> e.event_id, origin |-> e.origin,
                sender |-> e.sender, state_key |-> e.sender, type |-> e.type,
                membership |-> e.membership, sig |-> e.sig,
                room_version |-> NoVersion]]

Bodies == {NotJSONBody} \cup {EventBody(e) : e \in BodyEvents}

NoBody == NotJSONBody

----------------------------------------------------------------------------
\* Responses (util.JSONResponse with a jsonerror body).  msg is the message
\* as the strings it is concatenated from.

JSONResponse(code, errcode, msg) ==
    [code |-> code, errcode |-> errcode, msg |-> msg,
     room_version |-> NoVersion, event |-> NoEvent]

NoResponse == JSONResponse(0, "", <<>>)

InternalServerError == JSONResponse(500, "M_UNKNOWN", <<"Internal Server Error">>)
BadJSON(msg) == JSONResponse(400, "M_BAD_JSON", msg)
NotJSON(msg) == JSONResponse(400, "M_NOT_JSON", msg)
Forbidden(msg) == JSONResponse(403, "M_FORBIDDEN", msg)
NotFound(msg) == JSONResponse(404, "M_NOT_FOUND", msg)
UnsupportedRoomVersion(msg) == JSONResponse(400, "M_UNSUPPORTED_ROOM_VERSION", msg)
EmptyOK == JSONResponse(200, "", <<"{}">>)

MsgRoomID == "The room ID in the request path must match the room ID in the leave event JSON"
MsgEventID == "The event ID in the request path must match the event ID in the leave event JSON"
MsgOrigin == "The leave must be sent by the server it originated on"
MsgSigned == "The leave must be signed by the server it originated on"
MsgMembership == "The membership in the event content must be set to leave"
MsgNotJSON == "The request body could not be decoded into valid JSON. "
MsgUserID == "Invalid UserID"
MsgUserServer == "The leave must be sent by the server of the user"
MsgNoRoom == "Room does not exist"

----------------------------------------------------------------------------
VARIABLES
    pc,         \* pc[p]: where handler p stands
    req,        \* req[p]: the request it serves
    verRes,     \* verRes[p]: QueryRoomVersionForRoomResponse.RoomVersion
    event,      \* event[p]: the event decoded from the request body
    resp,       \* resp[p]: the response it returned
    calls,      \* calls[p]: the calls it made so far, with the error of each
    sent,       \* sent[p]: the arguments of its api.SendEvents call
    queryRes,   \* queryRes[p]: the room state eventutil.BuildEvent read
    joined,     \* roomserver: joined[r] = users joined to room r (live state)
    persisted,  \* roomserver: IDs of the events in the room event graph
    nreq        \* requests accepted so far

vars == <<pc, req, verRes, event, resp, calls, sent, queryRes, joined, persisted, nreq>>

NoRequest ==
    [op |-> "none", roomID |-> "none", eventID |-> "none", userID |-> NoUser,
     origin |-> "none", content |-> NoBody]

NoQuery == [read |-> FALSE, StateEvents |-> {}]

NoSend == [events |-> <<>>, sendAsServer |-> "none", txnID |-> "none"]

Call(fn, err) == [fn |-> fn, err |-> err]

Called(p, fn) == \E i \in 1..Len(calls[p]) : calls[p][i].fn = fn

Init ==
    /\ pc = [p \in Procs |-> "idle"]
    /\ req = [p \in Procs |-> NoRequest]
    /\ verRes = [p \in Procs |-> NoVersion]
    /\ event = [p \in Procs |-> NoEvent]
    /\ resp = [p \in Procs |-> NoResponse]
    /\ calls = [p \in Procs |-> <<>>]
    /\ sent = [p \in Procs |-> NoSend]
    /\ queryRes = [p \in Procs |-> NoQuery]
    /\ joined \in {[r \in Rooms |-> IF r \in RoomsWithState THEN m ELSE {}] : m \in SUBSET Users}
    /\ persisted = {}
    /\ nreq = 0

----------------------------------------------------------------------------
\* Collaborators.  Each operator gives the set of outcomes a call can have.

\* rsAPI.QueryRoomVersionForRoom: the version of the room table, an error for
\* a room that is not in it, or a transport error.
QueryRoomVersionForRoom(roomID) ==
    {[err |-> e, RoomVersion |-> NoVersion] : e \in TransportErrors}
    \cup (IF RoomVersionOf(roomID) = NoVersion
          THEN {[err |-> ErrRoomNotFound, RoomVersion |-> NoVersion]}
          ELSE {[err |-> Nil, RoomVersion |-> RoomVersionOf(roomID)]})

\* gomatrixserverlib.NewEventFromUntrustedJSON: decodes the body under the
\* room version's event format.
NewEventFromUntrustedJSON(content, roomVersion) ==
    IF content.json
    THEN [err |-> Nil, event |-> [content.event EXCEPT !.room_version = roomVersion]]
    ELSE [err |-> ErrNotJSON, event |-> NoEvent]

\* keys.VerifyJSONs for the one request {ServerName: origin, AtTS:
\* origin_server_ts, StrictValidityChecking}: the call fails, or it returns
\* one result whose Error is nil exactly for a signature of the origin's key
\* that was valid at the timestamp.
VerifyJSONs(ev) ==
    {[err |-> e, resultError |-> "none"] : e \in TransportErrors}
    \cup {[err |-> Nil, resultError |-> IF ev.sig = "valid" THEN Nil ELSE ev.sig]}

\* Event.Membership: content.membership of an m.room.member event, an error
\* for any other event.
Membership(ev) ==
    IF ev.type = MRoomMember
    THEN [err |-> Nil, mem |-> ev.membership]
    ELSE [err |-> ErrNotMembership, mem |-> ""]

\* The roomserver's authorization of a leave against the room's live state.
AllowedAt(ev, members) ==
    IF ev.sender \in members THEN Nil ELSE ErrNotAMember

\* api.SendEvents: the roomserver takes the events in, or fails.  An event it
\* already holds is a no-op; a new one is authorized against the live state,
\* and stored when allowed.
SendEvents(events, sendAsServer, txnID) ==
    LET ev == events[1]
        known == ev.event_id \in persisted
        auth == AllowedAt(ev, joined[ev.room_id])
    IN  {[err |-> e, persisted |-> persisted, joined |-> joined] : e \in TransportErrors}
        \cup (IF known
              THEN {[err |-> Nil, persisted |-> persisted, joined |-> joined]}
              ELSE IF auth # Nil
              THEN {[err |-> auth, persisted |-> persisted, joined |-> joined]}
              ELSE {[err |-> Nil, persisted |-> persisted \cup {ev.event_id},
                     joined |-> [joined EXCEPT ![ev.room_id] = @ \ {ev.sender}]]})

----------------------------------------------------------------------------
\* SendLeave (/send_leave)

\* The room ID check left out.
RoomIDMatches_Skipped(ev, roomID) == TRUE

RoomIDMatches(ev, roomID) == ev.room_id = roomID

EventIDMatches(ev, eventID) == ev.event_id = eventID

\* The origin check left out.
OriginMatches_Skipped(ev, origin) == TRUE

OriginMatches(ev, origin) == ev.origin = origin

\* The failed query answered as an unknown room.
SendLeaveVersionFailed_NotFound(err) == NotFound(<<MsgNoRoom>>)

\* Lines 121-126: what follows a failed room version query.
SendLeaveVersionFailed(err) == UnsupportedRoomVersion(<<err>>)

\* The origin check moved before the room ID check.
SendLeaveChecks_OriginFirst(r, roomVersion) ==
    LET dec == NewEventFromUntrustedJSON(r.content, roomVersion)
    IN  IF dec.err # Nil THEN NotJSON(<<MsgNotJSON, dec.err>>)
        ELSE IF ~OriginMatches(dec.event, r.origin) THEN Forbidden(<<MsgOrigin>>)
        ELSE IF ~RoomIDMatches(dec.event, r.roomID) THEN BadJSON(<<MsgRoomID>>)
        ELSE IF ~EventIDMatches(dec.event, r.eventID) THEN BadJSON(<<MsgEventID>>)
        ELSE NoResponse

\* Lines 128-159: decode the body and check it against the path and the
\* caller.  NoResponse when every check passes.
SendLeaveChecks(r, roomVersion) ==
    LET dec == NewEventFromUntrustedJSON(r.content, roomVersion)
    IN  IF dec.err # Nil THEN NotJSON(<<MsgNotJSON, dec.err>>)
        ELSE IF ~RoomIDMatches(dec.event, r.roomID) THEN BadJSON(<<MsgRoomID>>)
        ELSE IF ~EventIDMatches(dec.event, r.eventID) THEN BadJSON(<<MsgEventID>>)
        ELSE IF ~OriginMatches(dec.event, r.origin) THEN Forbidden(<<MsgOrigin>>)
        ELSE NoResponse

\* verifyResults[0].Error not looked at.
SendLeaveVerified_IgnoresResult(ev, out) ==
    IF out.err # Nil THEN InternalServerError
    ELSE IF Membership(ev).err # Nil THEN InternalServerError
    ELSE IF Membership(ev).mem # Leave THEN BadJSON(<<MsgMembership>>)
    ELSE NoResponse

\* The membership read but not compared with "leave".
SendLeaveVerified_AnyMembership(ev, out) ==
    IF out.err # Nil THEN InternalServerError
    ELSE IF out.resultError # Nil THEN Forbidden(<<MsgSigned>>)
    ELSE IF Membership(ev).err # Nil THEN InternalServerError
    ELSE NoResponse

\* A failed VerifyJSONs call answered like a bad signature.
SendLeaveVerified_ErrAsForbidden(ev, out) ==
    IF out.err # Nil \/ out.resultError # Nil THEN Forbidden(<<MsgSigned>>)
    ELSE IF Membership(ev).err # Nil THEN InternalServerError
    ELSE IF Membership(ev).mem # Leave THEN BadJSON(<<MsgMembership>>)
    ELSE NoResponse

\* The handler checking the sender's membership itself before sending.
SendLeaveVerified_RequiresJoined(ev, out) ==
    IF out.err # Nil THEN InternalServerError
    ELSE IF out.resultError # Nil THEN Forbidden(<<MsgSigned>>)
    ELSE IF Membership(ev).err # Nil THEN InternalServerError
    ELSE IF Membership(ev).mem # Leave THEN BadJSON(<<MsgMembership>>)
    ELSE IF ev.sender \notin joined[ev.room_id] THEN Forbidden(<<ErrNotAMember>>)
    ELSE NoResponse

\* Lines 169-191: what follows the key ring's answer.  NoResponse when the
\* signature and the membership pass.
SendLeaveVerified(ev, out) ==
    IF out.err # Nil THEN InternalServerError
    ELSE IF out.resultError # Nil THEN Forbidden(<<MsgSigned>>)
    ELSE IF Membership(ev).err # Nil THEN InternalServerError
    ELSE IF Membership(ev).mem # Leave THEN BadJSON(<<MsgMembership>>)
    ELSE NoResponse

\* The event headered with a fixed room version.
Headered_Default(ev, roomVersion) == [ev EXCEPT !.room_version = "1"]

\* Event.Headered: the event with the room version attached.
Headered(ev, roomVersion) == [ev EXCEPT !.room_version = roomVersion]

\* The error of api.SendEvents put into the 500 response.
SendLeaveSent_WithError(out) ==
    IF out.err # Nil THEN JSONResponse(500, "M_UNKNOWN", <<out.err>>) ELSE EmptyOK

\* A cancelled api.SendEvents call taken for a completed one.
SendLeaveSent_IgnoresCancel(out) ==
    IF out.err \notin {Nil, "context canceled"} THEN InternalServerError ELSE EmptyOK

\* Lines 204-212: what follows api.SendEvents.
SendLeaveSent(out) ==
    IF out.err # Nil THEN InternalServerError ELSE EmptyOK

StartSendLeave(p) ==
    /\ pc[p] = "idle"
    /\ nreq < MaxRequests
    /\ \E roomID \in Rooms, eventID \in EventIDs, origin \in Servers, content \in Bodies :
          req' = [req EXCEPT ![p] = [op |-> "send", roomID |-> roomID, eventID |-> eventID,
                                     userID |-> NoUser, origin |-> origin,
                                     content |-> content]]
    /\ pc' = [pc EXCEPT ![p] = "sl_version"]
    /\ nreq' = nreq + 1
    /\ UNCHANGED <<verRes, event, resp, calls, sent, queryRes, joined, persisted>>

\* Lines 119-159.
SL_QueryRoomVersion(p) ==
    /\ pc[p] = "sl_version"
    /\ \E out \in QueryRoomVersionForRoom(req[p].roomID) :
          IF out.err # Nil
          THEN /\ resp' = [resp EXCEPT ![p] = SendLeaveVersionFailed(out.err)]
               /\ calls' = [calls EXCEPT ![p] = Append(@, Call("QueryRoomVersionForRoom", out.err))]
               /\ pc' = [pc EXCEPT ![p] = "done"]
               /\ UNCHANGED <<verRes, event>>
          ELSE LET dec == NewEventFromUntrustedJSON(req[p].content, out.RoomVersion)
                   r == SendLeaveChecks(req[p], out.RoomVersion)
               IN  /\ verRes' = [verRes EXCEPT ![p] = out.RoomVersion]
                   /\ event' = [event EXCEPT ![p] = dec.event]
                   /\ calls' = [calls EXCEPT ![p] =
                                   @ \o <<Call("QueryRoomVersionForRoom", Nil),
                                          Call("NewEventFromUntrustedJSON", dec.err)>>]
                   /\ resp' = [resp EXCEPT ![p] = r]
                   /\ pc' = [pc EXCEPT ![p] = IF r = NoResponse THEN "sl_verify" ELSE "done"]
    /\ UNCHANGED <<req, sent, queryRes, joined, persisted, nreq>>

\* A failed keys.VerifyJSONs call tried once more.
SL_VerifyJSONs_Retry(p) ==
    /\ pc[p] = "sl_verify"
    /\ \E out \in VerifyJSONs(event[p]) :
          LET r == SendLeaveVerified(event[p], out)
              reachedMembership == out.err = Nil /\ out.resultError = Nil
              again == out.err # Nil /\ ~Called(p, "VerifyJSONs")
          IN  /\ calls' = [calls EXCEPT ![p] =
                              @ \o <<Call("VerifyJSONs", out.err)>>
                                \o (IF reachedMembership
                                    THEN <<Call("Membership", Membership(event[p]).err)>>
                                    ELSE <<>>)]
              /\ resp' = [resp EXCEPT ![p] = IF again THEN NoResponse ELSE r]
              /\ pc' = [pc EXCEPT ![p] = IF again THEN "sl_verify"
                                         ELSE IF r = NoResponse THEN "sl_send" ELSE "done"]
    /\ UNCHANGED <<req, verRes, event, sent, queryRes, joined, persisted, nreq>>

\* Lines 161-191.
SL_VerifyJSONs(p) ==
    /\ pc[p] = "sl_verify"
    /\ \E out \in VerifyJSONs(event[p]) :
          LET r == SendLeaveVerified(event[p], out)
              reachedMembership == out.err = Nil /\ out.resultError = Nil
          IN  /\ calls' = [calls EXCEPT ![p] =
                              @ \o <<Call("VerifyJSONs", out.err)>>
                                \o (IF reachedMembership
                                    THEN <<Call("Membership", Membership(event[p]).err)>>
                                    ELSE <<>>)]
              /\ resp' = [resp EXCEPT ![p] = r]
              /\ pc' = [pc EXCEPT ![p] = IF r = NoResponse THEN "sl_send" ELSE "done"]
    /\ UNCHANGED <<req, verRes, event, sent, queryRes, joined, persisted, nreq>>

\* The event sent on behalf of the calling server.
SL_SendEvents_AsCaller(p) ==
    /\ pc[p] = "sl_send"
    /\ LET events == <<Headered(event[p], verRes[p])>>
       IN  \E out \in SendEvents(events, req[p].origin, Nil) :
              /\ sent' = [sent EXCEPT ![p] = [events |-> events,
                                              sendAsServer |-> req[p].origin,
                                              txnID |-> Nil]]
              /\ calls' = [calls EXCEPT ![p] = Append(@, Call("SendEvents", out.err))]
              /\ persisted' = out.persisted
              /\ joined' = out.joined
              /\ resp' = [resp EXCEPT ![p] = SendLeaveSent(out)]
              /\ pc' = [pc EXCEPT ![p] = "done"]
    /\ UNCHANGED <<req, verRes, event, queryRes, nreq>>

\* Lines 193-212.
SL_SendEvents(p) ==
    /\ pc[p] = "sl_send"
    /\ LET events == <<Headered(event[p], verRes[p])>>
       IN  \E out \in SendEvents(events, ServerName, Nil) :
              /\ sent' = [sent EXCEPT ![p] = [events |-> events, sendAsServer |-> ServerName,
                                              txnID |-> Nil]]
              /\ calls' = [calls EXCEPT ![p] = Append(@, Call("SendEvents", out.err))]
              /\ persisted' = out.persisted
              /\ joined' = out.joined
              /\ resp' = [resp EXCEPT ![p] = SendLeaveSent(out)]
              /\ pc' = [pc EXCEPT ![p] = "done"]
    /\ UNCHANGED <<req, verRes, event, queryRes, nreq>>

----------------------------------------------------------------------------
\* MakeLeave (/make_leave)

FirstColon(id) ==
    LET at == {i \in 1..Len(id) : id[i] = ":"}
    IN  IF at = {} THEN 0 ELSE CHOOSE i \in at : \A j \in at : i <= j

\* gomatrixserverlib.SplitID: the ID must start with the sigil and hold a
\* ':'; the domain is what follows the first ':'.
SplitID(sigil, id) ==
    IF Len(id) = 0 \/ id[1] # sigil \/ FirstColon(id) = 0
    THEN [err |-> ErrInvalidID, local |-> <<>>, domain |-> <<>>]
    ELSE [err |-> Nil, local |-> SubSeq(id, 2, FirstColon(id) - 1),
          domain |-> SubSeq(id, FirstColon(id) + 1, Len(id))]

\* The domain check left out.
DomainMatches_Skipped(domain, origin) == TRUE

\* Line 51: the user's domain against request.Origin().
DomainMatches(domain, origin) == domain = <<origin>>

\* Lines 59-65: the EventBuilder of the leave.  SetContent marshals a constant
\* map of strings, which cannot fail, so lines 66-69 never return.
LeaveBuilder(roomID, userID) ==
    [NoEvent EXCEPT !.sender = userID, !.room_id = roomID, !.type = MRoomMember,
                    !.state_key = userID, !.membership = Leave]

\* eventutil.BuildEvent: reads the room's latest events and state (queryRes)
\* and builds the event on them; ErrRoomNoExists for a room without any.
BuildEvent(builder) ==
    {[err |-> e, event |-> NoEvent, StateEvents |-> {}] : e \in TransportErrors}
    \cup (IF builder.room_id \in RoomsWithState
          THEN {[err |-> Nil, event |-> [builder EXCEPT !.origin = ServerName],
                 StateEvents |-> joined[builder.room_id]],
                [err |-> ErrBadJSON, event |-> NoEvent, StateEvents |-> {}]}
          ELSE {[err |-> ErrRoomNoExists, event |-> NoEvent, StateEvents |-> {}]})

\* The dry run accepting every event.
Allowed_Always(ev, stateEvents) == Nil

\* gomatrixserverlib.Allowed for a leave against the auth events given.
Allowed(ev, stateEvents) ==
    IF ev.sender \in stateEvents THEN Nil ELSE ErrNotAMember

\* The error of SplitID not looked at.
MakeLeaveChecks_NoSplitError(r) ==
    LET id == SplitID("@", r.userID)
    IN  IF ~DomainMatches(id.domain, r.origin) THEN Forbidden(<<MsgUserServer>>)
        ELSE NoResponse

\* Lines 44-56: the user ID checks.  NoResponse when they pass.
MakeLeaveChecks(r) ==
    LET id == SplitID("@", r.userID)
    IN  IF id.err # Nil THEN BadJSON(<<MsgUserID>>)
        ELSE IF ~DomainMatches(id.domain, r.origin) THEN Forbidden(<<MsgUserServer>>)
        ELSE NoResponse

\* Lines 37-42: what follows a failed room version query (the 500 response
\* carries jsonerror.InternalServerError() as its body).
MakeLeaveVersionFailed(err) == InternalServerError

\* Lines 73-107: what follows eventutil.BuildEvent.
MakeLeaveBuilt(out, roomVersion, builder) ==
    IF out.err = ErrRoomNoExists THEN NotFound(<<MsgNoRoom>>)
    ELSE IF out.err = ErrBadJSON THEN BadJSON(<<out.err>>)
    ELSE IF out.err # Nil THEN InternalServerError
    ELSE IF Allowed(out.event, out.StateEvents) # Nil
    THEN Forbidden(<<Allowed(out.event, out.StateEvents)>>)
    ELSE [JSONResponse(200, "", <<>>) EXCEPT !.room_version = roomVersion,
                                             !.event = builder]

StartMakeLeave(p) ==
    /\ pc[p] = "idle"
    /\ nreq < MaxRequests
    /\ \E roomID \in Rooms, userID \in UserIDs, origin \in Servers :
          req' = [req EXCEPT ![p] = [op |-> "make", roomID |-> roomID, eventID |-> "none",
                                     userID |-> userID, origin |-> origin,
                                     content |-> NoBody]]
    /\ pc' = [pc EXCEPT ![p] = "ml_version"]
    /\ nreq' = nreq + 1
    /\ UNCHANGED <<verRes, event, resp, calls, sent, queryRes, joined, persisted>>

\* Lines 35-69.
ML_QueryRoomVersion(p) ==
    /\ pc[p] = "ml_version"
    /\ \E out \in QueryRoomVersionForRoom(req[p].roomID) :
          IF out.err # Nil
          THEN /\ resp' = [resp EXCEPT ![p] = MakeLeaveVersionFailed(out.err)]
               /\ calls' = [calls EXCEPT ![p] = Append(@, Call("QueryRoomVersionForRoom", out.err))]
               /\ pc' = [pc EXCEPT ![p] = "done"]
               /\ UNCHANGED verRes
          ELSE LET r == MakeLeaveChecks(req[p])
               IN  /\ verRes' = [verRes EXCEPT ![p] = out.RoomVersion]
                   /\ calls' = [calls EXCEPT ![p] =
                                   @ \o <<Call("QueryRoomVersionForRoom", Nil),
                                          Call("SplitID", SplitID("@", req[p].userID).err)>>]
                   /\ resp' = [resp EXCEPT ![p] = r]
                   /\ pc' = [pc EXCEPT ![p] = IF r = NoResponse THEN "ml_build" ELSE "done"]
    /\ UNCHANGED <<req, event, sent, queryRes, joined, persisted, nreq>>

\* The built event sent to the roomserver once the dry run accepts it.
ML_BuildEvent_Sending(p) ==
    /\ pc[p] = "ml_build"
    /\ LET builder == LeaveBuilder(req[p].roomID, req[p].userID)
       IN  \E out \in BuildEvent(builder) :
              LET r == MakeLeaveBuilt(out, verRes[p], builder)
                  events == <<Headered([out.event EXCEPT !.event_id = "$e1"], verRes[p])>>
              IN  /\ event' = [event EXCEPT ![p] = out.event]
                  /\ queryRes' = [queryRes EXCEPT ![p] =
                                     [read |-> out.err \notin TransportErrors,
                                      StateEvents |-> out.StateEvents]]
                  /\ resp' = [resp EXCEPT ![p] = r]
                  /\ pc' = [pc EXCEPT ![p] = "done"]
                  /\ IF r.code = 200
                     THEN /\ sent' = [sent EXCEPT ![p] =
                                         [events |-> events, sendAsServer |-> ServerName,
                                          txnID |-> Nil]]
                          /\ persisted' = persisted \cup {"$e1"}
                          /\ calls' = [calls EXCEPT ![p] =
                                          @ \o <<Call("BuildEvent", Nil), Call("Allowed", Nil),
                                                 Call("SendEvents", Nil)>>]
                     ELSE /\ calls' = [calls EXCEPT ![p] =
                                          @ \o <<Call("BuildEvent", out.err)>>
                                            \o (IF out.err = Nil
                                                THEN <<Call("Allowed",
                                                            Allowed(out.event, out.StateEvents))>>
                                                ELSE <<>>)]
                          /\ UNCHANGED <<sent, persisted>>
    /\ UNCHANGED <<req, verRes, joined, nreq>>

\* Lines 71-107.
ML_BuildEvent(p) ==
    /\ pc[p] = "ml_build"
    /\ LET builder == LeaveBuilder(req[p].roomID, req[p].userID)
       IN  \E out \in BuildEvent(builder) :
              /\ event' = [event EXCEPT ![p] = out.event]
              /\ queryRes' = [queryRes EXCEPT ![p] =
                                 [read |-> out.err \notin TransportErrors,
                                  StateEvents |-> out.StateEvents]]
              /\ calls' = [calls EXCEPT ![p] =
                              @ \o <<Call("BuildEvent", out.err)>>
                                \o (IF out.err = Nil
                                    THEN <<Call("Allowed", Allowed(out.event, out.StateEvents))>>
                                    ELSE <<>>)]
              /\ resp' = [resp EXCEPT ![p] = MakeLeaveBuilt(out, verRes[p], builder)]
              /\ pc' = [pc EXCEPT ![p] = "done"]
    /\ UNCHANGED <<req, verRes, sent, joined, persisted, nreq>>

\* The response has gone to the caller; the slot takes the next request.
Respond(p) ==
    /\ pc[p] = "done"
    /\ pc' = [pc EXCEPT ![p] = "idle"]
    /\ req' = [req EXCEPT ![p] = NoRequest]
    /\ verRes' = [verRes EXCEPT ![p] = NoVersion]
    /\ event' = [event EXCEPT ![p] = NoEvent]
    /\ resp' = [resp EXCEPT ![p] = NoResponse]
    /\ calls' = [calls EXCEPT ![p] = <<>>]
    /\ sent' = [sent EXCEPT ![p] = NoSend]
    /\ queryRes' = [queryRes EXCEPT ![p] = NoQuery]
    /\ UNCHANGED <<joined, persisted, nreq>>

\* Another part of the server changes the membership of the room with state
\* (a join, a kick, a ban).
MembershipChange ==
    /\ \E u \in Users :
          joined' = [joined EXCEPT !["!r:a.org"] =
                        IF u \in @ THEN @ \ {u} ELSE @ \cup {u}]
    /\ UNCHANGED <<pc, req, verRes, event, resp, calls, sent, queryRes, persisted, nreq>>

Next ==
    \/ \E p \in SeqProcs : StartSendLeave(p)
    \/ \E p \in SeqProcs : SL_QueryRoomVersion(p)
    \/ \E p \in SeqProcs : SL_VerifyJSONs(p)
    \/ \E p \in SeqProcs : SL_SendEvents(p)
    \/ \E p \in SeqProcs : StartMakeLeave(p)
    \/ \E p \in SeqProcs : ML_QueryRoomVersion(p)
    \/ \E p \in SeqProcs : ML_BuildEvent(p)
    \/ \E p \in SeqProcs : Respond(p)
    \/ MembershipChange

Spec == Init /\ [][Next]_vars

----------------------------------------------------------------------------
\* The leave handshake: a remote server drafts a leave in slot h1, signs the
\* template it got and submits it in slot h2, while the room's membership
\* changes underneath.

Drafter == "h1"
Submitter == "h2"

\* The remote server holds the 200 response of its make_leave request.
HoldsTemplate == pc[Drafter] = "done" /\ req[Drafter].op = "make" /\ resp[Drafter].code = 200

\* The template completed and signed by the server that asked for it.
SignedTemplate(eventID) ==
    [json |-> TRUE,
     event |-> [resp[Drafter].event EXCEPT !.event_id = eventID,
                                           !.origin = req[Drafter].origin,
                                           !.sig = "valid"]]

\* The remote server sends the signed template to /send_leave.
SubmitTemplate ==
    /\ HoldsTemplate
    /\ pc[Submitter] = "idle"
    /\ nreq < MaxRequests
    /\ \E eventID \in EventIDs :
          req' = [req EXCEPT ![Submitter] =
                     [op |-> "send", roomID |-> resp[Drafter].event.room_id,
                      eventID |-> eventID, userID |-> NoUser,
                      origin |-> req[Drafter].origin,
                      content |-> SignedTemplate(eventID)]]
    /\ pc' = [pc EXCEPT ![Submitter] = "sl_version"]
    /\ nreq' = nreq + 1
    /\ UNCHANGED <<verRes, event, resp, calls, sent, queryRes, joined, persisted>>

NextHandshake ==
    \/ StartMakeLeave(Drafter)
    \/ ML_QueryRoomVersion(Drafter)
    \/ ML_BuildEvent(Drafter)
    \/ SubmitTemplate
    \/ SL_QueryRoomVersion(Submitter)
    \/ SL_VerifyJSONs(Submitter)
    \/ SL_SendEvents(Submitter)
    \/ Respond(Submitter)
    \/ MembershipChange

SpecHandshake == Init /\ [][NextHandshake]_vars

----------------------------------------------------------------------------
\* Resubmission: remote servers send valid signed leaves of the room with
\* state, the same one more than once, to both handler slots at once.

\* The event ID is the hash of the event: one ID for each user's leave.
LeaveEventID(userID) == IF userID = UserB THEN "$e1" ELSE "$e2"

ValidLeave(userID) ==
    EventBody([room_id |-> "!r:a.org", event_id |-> LeaveEventID(userID),
               origin |-> userID[4], sender |-> userID, type |-> MRoomMember,
               membership |-> Leave, sig |-> "valid"])

SubmitValidLeave(p) ==
    /\ pc[p] = "idle"
    /\ nreq < MaxRequests
    /\ \E userID \in Users :
          req' = [req EXCEPT ![p] =
                     [op |-> "send", roomID |-> "!r:a.org",
                      eventID |-> LeaveEventID(userID), userID |-> NoUser,
                      origin |-> userID[4], content |-> ValidLeave(userID)]]
    /\ pc' = [pc EXCEPT ![p] = "sl_version"]
    /\ nreq' = nreq + 1
    /\ UNCHANGED <<verRes, event, resp, calls, sent, queryRes, joined, persisted>>

NextResubmit ==
    \/ \E p \in Procs : SubmitValidLeave(p)
    \/ \E p \in Procs : SL_QueryRoomVersion(p)
    \/ \E p \in Procs : SL_VerifyJSONs(p)
    \/ \E p \in Procs : SL_SendEvents(p)
    \/ \E p \in Procs : Respond(p)
    \/ MembershipChange

SpecResubmit == Init /\ [][NextResubmit]_vars

----------------------------------------------------------------------------
\* Vocabulary of the properties

\* The failure a response reports, under the names of the error taxonomy.
Kind(r) ==
    IF r.code = 200 THEN "Ok"
    ELSE IF r = InternalServerError THEN "InternalFailure"
    ELSE IF r.code = 400 /\ r.errcode = "M_UNSUPPORTED_ROOM_VERSION" THEN "UnsupportedRoomVersion"
    ELSE IF r.code = 400 /\ r.errcode = "M_NOT_JSON" THEN "MalformedPayload"
    ELSE IF r = BadJSON(<<MsgRoomID>>) THEN "RoomIdMismatch"
    ELSE IF r = BadJSON(<<MsgEventID>>) THEN "EventIdMismatch"
    ELSE IF r = BadJSON(<<MsgMembership>>) THEN "MembershipMismatch"
    ELSE IF r = BadJSON(<<MsgUserID>>) THEN "InvalidUserID"
    ELSE IF r.code = 400 /\ r.errcode = "M_BAD_JSON" THEN "MalformedContent"
    ELSE IF r = Forbidden(<<MsgOrigin>>) \/ r = Forbidden(<<MsgUserServer>>) THEN "OriginMismatch"
    ELSE IF r = Forbidden(<<MsgSigned>>) THEN "SignatureInvalid"
    ELSE IF r.code = 403 /\ r.errcode = "M_FORBIDDEN" THEN "NotAuthorized"
    ELSE IF r.code = 404 /\ r.errcode = "M_NOT_FOUND" THEN "RoomUnknown"
    ELSE "none"

SendDone(p) == pc[p] = "done" /\ req[p].op = "send"

MakeDone(p) == pc[p] = "done" /\ req[p].op = "make"

\* The event in the body of p's request, as the caller sent it.
Body(p) == req[p].content.event

\* The names of the calls p made, in order.
Trace(p) == [i \in 1..Len(calls[p]) |-> calls[p][i].fn]

\* The error of p's call to fn ("none" when p did not call it).
ErrOf(p, fn) ==
    IF Called(p, fn)
    THEN calls[p][CHOOSE i \in 1..Len(calls[p]) : calls[p][i].fn = fn].err
    ELSE "none"

\* p's request is a send_leave whose room version resolved and whose body
\* decoded.
Decoded(p) ==
    /\ req[p].op = "send"
    /\ ErrOf(p, "QueryRoomVersionForRoom") = Nil
    /\ req[p].content.json

\* ... and whose event agrees with the path and the caller (steps 3 to 5).
Addressed(p) ==
    /\ Decoded(p)
    /\ Body(p).room_id = req[p].roomID
    /\ Body(p).event_id = req[p].eventID
    /\ Body(p).origin = req[p].origin

\* ... and whose signature the key ring verified (step 6).
Signed(p) ==
    /\ Addressed(p)
    /\ ErrOf(p, "VerifyJSONs") = Nil
    /\ Body(p).sig = "valid"

\* ... and which is a leave (step 7).
FullyValidated(p) ==
    /\ Signed(p)
    /\ Body(p).type = MRoomMember
    /\ Body(p).membership = Leave

ValidationKinds ==
    {"UnsupportedRoomVersion", "MalformedPayload", "RoomIdMismatch", "EventIdMismatch",
     "OriginMismatch", "SignatureInvalid", "MembershipMismatch"}

----------------------------------------------------------------------------
\* C1: SendLeave calls the Event Ingestion Service only for an event that
\* passed every check of steps 1 to 7: the room version resolved, the body
\* decoded, room ID, event ID and origin match the request, the signature
\* verified without error and the membership is "leave".  A request that ends
\* in a failure of steps 1 to 7 never called ingestion, and the event graph
\* changes only in the ingestion step of a fully validated request that then
\* answers 200.
C1_IngestionOnlyAfterValidation ==
    /\ [](\A p \in Procs :
            /\ (pc[p] = "sl_send" \/ Called(p, "SendEvents")) => FullyValidated(p)
            /\ (SendDone(p) /\ ~Called(p, "SendEvents")) =>
                  /\ resp[p].code # 200
                  /\ sent[p] = NoSend
            /\ (SendDone(p) /\ Kind(resp[p]) \in ValidationKinds) =>
                  ~Called(p, "SendEvents"))
    /\ [][persisted' # persisted =>
            \E p \in Procs :
               /\ pc[p] = "sl_send" /\ FullyValidated(p)
               /\ pc'[p] = "done" /\ resp'[p] = EmptyOK]_vars

C1_Witness ==
    \E p \in Procs :
       /\ SendDone(p) /\ FullyValidated(p)
       /\ ErrOf(p, "SendEvents") = Nil
       /\ resp[p] = EmptyOK
       /\ Body(p).event_id \in persisted

\* The steps of SendLeave that p's request fails, by the request alone and
\* by what the collaborators answered.
ViolatedSteps(p) ==
    (IF ErrOf(p, "QueryRoomVersionForRoom") # Nil THEN {1} ELSE {})
    \cup (IF ~req[p].content.json THEN {2} ELSE {})
    \cup (IF req[p].content.json /\ Body(p).room_id # req[p].roomID THEN {3} ELSE {})
    \cup (IF req[p].content.json /\ Body(p).event_id # req[p].eventID THEN {4} ELSE {})
    \cup (IF req[p].content.json /\ Body(p).origin # req[p].origin THEN {5} ELSE {})
    \cup (IF req[p].content.json /\ (Body(p).sig # "valid" \/ ErrOf(p, "VerifyJSONs") \in TransportErrors)
          THEN {6} ELSE {})
    \cup (IF req[p].content.json /\ (Body(p).type # MRoomMember \/ Body(p).membership # Leave)
          THEN {7} ELSE {})
    \cup (IF ErrOf(p, "SendEvents") \notin {Nil, "none"} THEN {8} ELSE {})

FirstViolated(p) ==
    IF ViolatedSteps(p) = {} THEN 9
    ELSE CHOOSE n \in ViolatedSteps(p) : \A m \in ViolatedSteps(p) : n <= m

\* The failures step n can report, and the calls made when the request ends
\* at step n.
KindsOfStep(n) ==
    CASE n = 1 -> {"UnsupportedRoomVersion"}
      [] n = 2 -> {"MalformedPayload"}
      [] n = 3 -> {"RoomIdMismatch"}
      [] n = 4 -> {"EventIdMismatch"}
      [] n = 5 -> {"OriginMismatch"}
      [] n = 6 -> {"SignatureInvalid", "InternalFailure"}
      [] n = 7 -> {"MembershipMismatch", "InternalFailure"}
      [] n = 8 -> {"InternalFailure"}
      [] OTHER -> {"Ok"}

TraceOfStep(n) ==
    CASE n = 1 -> <<"QueryRoomVersionForRoom">>
      [] n \in 2..5 -> <<"QueryRoomVersionForRoom", "NewEventFromUntrustedJSON">>
      [] n = 6 -> <<"QueryRoomVersionForRoom", "NewEventFromUntrustedJSON", "VerifyJSONs">>
      [] n = 7 -> <<"QueryRoomVersionForRoom", "NewEventFromUntrustedJSON", "VerifyJSONs",
                    "Membership">>
      [] OTHER -> <<"QueryRoomVersionForRoom", "NewEventFromUntrustedJSON", "VerifyJSONs",
                    "Membership", "SendEvents">>

\* C2: SendLeave runs its steps in the order room version, decode, room ID,
\* event ID, origin, signature, membership, ingestion; the response is the
\* failure of the lowest-numbered step that fails, and no later step runs.
C2_FirstFailingStepDecides ==
    \A p \in Procs :
       SendDone(p) =>
          /\ Kind(resp[p]) \in KindsOfStep(FirstViolated(p))
          /\ Trace(p) = TraceOfStep(FirstViolated(p))

C2_Witness ==
    \E p \in Procs :
       /\ SendDone(p)
       /\ {3, 5, 6, 7} \subseteq ViolatedSteps(p)
       /\ FirstViolated(p) = 3
       /\ Kind(resp[p]) = "RoomIdMismatch"

\* The mismatch response of a request, from its path, caller and event
\* addressing alone.
MismatchResponse(p) ==
    IF Body(p).room_id # req[p].roomID THEN BadJSON(<<MsgRoomID>>)
    ELSE IF Body(p).event_id # req[p].eventID THEN BadJSON(<<MsgEventID>>)
    ELSE Forbidden(<<MsgOrigin>>)

\* C3: an event whose room ID, event ID or origin disagrees with the request
\* is rejected with the mismatch error (of the first of the three that
\* disagrees) without the Signature Verifier being called, so the response
\* does not depend on the signature.
C3_MismatchBeforeSignature ==
    \A p \in Procs :
       (SendDone(p) /\ Decoded(p) /\ ~Addressed(p)) =>
          /\ resp[p] = MismatchResponse(p)
          /\ Kind(resp[p]) \in {"RoomIdMismatch", "EventIdMismatch", "OriginMismatch"}
          /\ ~Called(p, "VerifyJSONs")
          /\ ~Called(p, "SendEvents")

C3_Witness ==
    \E p \in Procs :
       /\ SendDone(p) /\ Decoded(p)
       /\ Body(p).room_id = req[p].roomID
       /\ Body(p).event_id = req[p].eventID
       /\ Body(p).origin = "b.org" /\ req[p].origin = "c.org"
       /\ Body(p).sig = "invalid"
       /\ Kind(resp[p]) = "OriginMismatch"

\* C4: a correctly addressed event whose signature the verifier reports as
\* invalid, or as not valid at origin_server_ts, is rejected with
\* SignatureInvalid and never reaches ingestion, whatever its membership and
\* whatever the room state would allow.
C4_BadSignatureRejected ==
    \A p \in Procs :
       (SendDone(p) /\ Addressed(p) /\ ErrOf(p, "VerifyJSONs") = Nil
          /\ Body(p).sig \in {"invalid", "expired"}) =>
          /\ Kind(resp[p]) = "SignatureInvalid"
          /\ resp[p].code = 403
          /\ ~Called(p, "SendEvents")

C4_Witness ==
    \E p \in Procs :
       /\ SendDone(p) /\ Addressed(p) /\ ErrOf(p, "VerifyJSONs") = Nil
       /\ Body(p).sig = "expired"
       /\ Body(p).type = MRoomMember /\ Body(p).membership = Leave
       /\ AllowedAt(Body(p), joined[Body(p).room_id]) = Nil
       /\ Kind(resp[p]) = "SignatureInvalid"

\* C5 as claimed: a correctly addressed, correctly signed event whose
\* content.membership is not "leave" fails with MembershipMismatch (400, not
\* InternalFailure) and is not submitted.
C5_AnyOtherMembershipIsMismatch ==
    \A p \in Procs :
       (SendDone(p) /\ Signed(p) /\ Body(p).membership # Leave) =>
          /\ Kind(resp[p]) = "MembershipMismatch"
          /\ ~Called(p, "SendEvents")

\* C5 as amended: a correctly addressed, correctly signed event is not
\* submitted unless its membership is "leave"; it fails with
\* MembershipMismatch (400) when Event.Membership reads a membership other
\* than "leave", and with InternalFailure when Event.Membership fails (the
\* event is not an m.room.member event).
C5_MembershipChecked ==
    \A p \in Procs :
       (SendDone(p) /\ Signed(p)) =>
          /\ (Body(p).type = MRoomMember /\ Body(p).membership # Leave) =>
                /\ Kind(resp[p]) = "MembershipMismatch"
                /\ resp[p].code = 400
          /\ Body(p).type # MRoomMember => Kind(resp[p]) = "InternalFailure"
          /\ (Body(p).type # MRoomMember \/ Body(p).membership # Leave) =>
                ~Called(p, "SendEvents")

C5_Witness ==
    \E p \in Procs :
       /\ SendDone(p) /\ Signed(p)
       /\ Body(p).type = MRoomMember /\ Body(p).membership = Join
       /\ Kind(resp[p]) = "MembershipMismatch"

\* C6: in step 6 a failed verifier call gives InternalFailure and a failed
\* per-signature result gives SignatureInvalid; ingestion is called in
\* neither case.
C6_VerifierFailureModes ==
    \A p \in Procs :
       (SendDone(p) /\ Called(p, "VerifyJSONs")) =>
          /\ ErrOf(p, "VerifyJSONs") # Nil =>
                /\ Kind(resp[p]) = "InternalFailure"
                /\ ~Called(p, "SendEvents")
          /\ (ErrOf(p, "VerifyJSONs") = Nil /\ Body(p).sig # "valid") =>
                /\ Kind(resp[p]) = "SignatureInvalid"
                /\ ~Called(p, "SendEvents")

C6_Witness ==
    \E p \in Procs :
       /\ SendDone(p)
       /\ ErrOf(p, "VerifyJSONs") \in TransportErrors
       /\ Body(p).sig = "invalid"
       /\ Kind(resp[p]) = "InternalFailure"

\* C7 as claimed: in step 8 a failure of the ingestion service is reported as
\* InternalFailure, and a rejection of the event by the authorization rules
\* during ingestion is reported as NotAuthorized.
C7_LateRejectionIsNotAuthorized ==
    \A p \in Procs :
       (SendDone(p) /\ Called(p, "SendEvents")) =>
          /\ ErrOf(p, "SendEvents") \in TransportErrors => Kind(resp[p]) = "InternalFailure"
          /\ ErrOf(p, "SendEvents") = ErrNotAMember => Kind(resp[p]) = "NotAuthorized"

\* C8: a failed room version query in SendLeave is reported as
\* UnsupportedRoomVersion (400, not the 404 of RoomUnknown); the body is not
\* decoded and neither the verifier nor ingestion is called.
C8_VersionFailureIsUnsupported ==
    \A p \in Procs :
       (SendDone(p) /\ ErrOf(p, "QueryRoomVersionForRoom") # Nil) =>
          /\ Kind(resp[p]) = "UnsupportedRoomVersion"
          /\ resp[p].code = 400
          /\ Trace(p) = <<"QueryRoomVersionForRoom">>
          /\ event[p] = NoEvent
          /\ sent[p] = NoSend

C8_Witness ==
    \E p \in Procs :
       /\ SendDone(p)
       /\ req[p].roomID = "!x:a.org"
       /\ ErrOf(p, "QueryRoomVersionForRoom") = ErrRoomNotFound
       /\ req[p].content.json
       /\ Kind(resp[p]) = "UnsupportedRoomVersion"

\* p's request is a make_leave for a well-formed user ID of another server
\* than the caller.
ForeignUser(p) ==
    /\ req[p].op = "make"
    /\ req[p].userID \in Users
    /\ req[p].userID[4] # req[p].origin

\* C9 as claimed: DraftLeave for a well-formed user ID whose domain is not
\* the calling server fails with OriginMismatch for every room, unknown rooms
\* and rooms whose version query fails included.
C9_ForeignUserAlwaysOriginMismatch ==
    \A p \in Procs :
       (MakeDone(p) /\ ForeignUser(p)) => Kind(resp[p]) = "OriginMismatch"

\* C9 as amended: DraftLeave for a well-formed user ID whose domain is not
\* the calling server fails with OriginMismatch whenever the room version
\* query succeeded, whatever the state of the room (rooms without state
\* included), and before any event is built; when the room version query
\* fails the request fails with InternalFailure instead.
C9_ForeignUserAfterVersion ==
    \A p \in Procs :
       (MakeDone(p) /\ ForeignUser(p)) =>
          /\ ErrOf(p, "QueryRoomVersionForRoom") = Nil =>
                /\ Kind(resp[p]) = "OriginMismatch"
                /\ resp[p].code = 403
                /\ ~Called(p, "BuildEvent")
          /\ ErrOf(p, "QueryRoomVersionForRoom") # Nil => Kind(resp[p]) = "InternalFailure"

C9_Witness ==
    \E p \in Procs :
       /\ MakeDone(p) /\ ForeignUser(p)
       /\ req[p].roomID = "!s:a.org"
       /\ req[p].userID = UserC /\ req[p].origin = "b.org"
       /\ Kind(resp[p]) = "OriginMismatch"

\* C10 as claimed: in DraftLeave a room version query that finds no version
\* fails the request with RoomUnknown (404), and one that fails with a
\* transport error fails it with InternalFailure.
C10_NoVersionIsRoomUnknown ==
    \A p \in Procs :
       MakeDone(p) =>
          /\ ErrOf(p, "QueryRoomVersionForRoom") = ErrRoomNotFound =>
                Kind(resp[p]) = "RoomUnknown"
          /\ ErrOf(p, "QueryRoomVersionForRoom") \in TransportErrors =>
                Kind(resp[p]) = "InternalFailure"

\* p's make_leave request got its event built: BuildEvent read the room
\* state and returned an event.
Built(p) ==
    /\ MakeDone(p)
    /\ ErrOf(p, "BuildEvent") = Nil
    /\ queryRes[p].read

\* C11: a successful DraftLeave returns a template for the requested room
\* with sender = state_key = the requested user and membership "leave", which
\* the authorization rules accept against the room state BuildEvent read
\* (queryRes, not the live state at the time of the response); when the
\* rules reject the built event against that state the request fails with
\* NotAuthorized (403) and carries no template.
C11_TemplateAuthorizedOnSnapshot ==
    \A p \in Procs :
       /\ (MakeDone(p) /\ resp[p].code = 200) =>
             /\ Built(p)
             /\ resp[p].event.room_id = req[p].roomID
             /\ resp[p].event.sender = req[p].userID
             /\ resp[p].event.state_key = req[p].userID
             /\ resp[p].event.type = MRoomMember
             /\ resp[p].event.membership = Leave
             /\ AllowedAt(resp[p].event, queryRes[p].StateEvents) = Nil
       /\ (Built(p) /\ AllowedAt(event[p], queryRes[p].StateEvents) # Nil) =>
             /\ Kind(resp[p]) = "NotAuthorized"
             /\ resp[p].code = 403
             /\ resp[p].event = NoEvent

\* A template returned on a snapshot the live state has since moved away
\* from.
C11_Witness ==
    \E p \in Procs :
       /\ MakeDone(p) /\ resp[p].code = 200
       /\ resp[p].event.sender = UserB
       /\ UserB \in queryRes[p].StateEvents
       /\ UserB \notin joined[req[p].roomID]

\* The submitter's request carries the drafter's template.
SubmitsTemplate ==
    /\ HoldsTemplate
    /\ req[Submitter].op = "send"
    /\ Body(Submitter).sender = resp[Drafter].event.sender
    /\ Body(Submitter).room_id = resp[Drafter].event.room_id

\* C12 as claimed: a template DraftLeave returned is never rejected for
\* authorization when it is signed and submitted, whatever happened to the
\* room's state between the draft and the submission.
C12_TemplateNeverRejected ==
    (SubmitsTemplate /\ SendDone(Submitter)) =>
       ErrOf(Submitter, "SendEvents") # ErrNotAMember

\* C12 as amended: a template DraftLeave returned is not rejected for
\* authorization at submission when the room's state at the ingestion step
\* is the state the draft was checked against; when the state changed in
\* between, ingestion may reject it.
C12_TemplateAcceptedOnSameState ==
    [][(/\ SubmitsTemplate
        /\ pc[Submitter] = "sl_send" /\ pc'[Submitter] = "done"
        /\ joined[req[Submitter].roomID] = queryRes[Drafter].StateEvents) =>
          calls'[Submitter][Len(calls'[Submitter])].err # ErrNotAMember]_vars

\* The signed template went in on the room state it was drafted on.
C12_Witness ==
    /\ SubmitsTemplate /\ SendDone(Submitter)
    /\ resp[Submitter] = EmptyOK
    /\ Body(Submitter).event_id \in persisted
    /\ joined[req[Submitter].roomID] = queryRes[Drafter].StateEvents \ {Body(Submitter).sender}

\* C13: DraftLeave persists and propagates nothing: a make_leave request,
\* whether it succeeds or fails, never calls the Event Ingestion Service
\* (api.SendEvents) nor the Signature Verifier (keys.VerifyJSONs), and no
\* step of a make_leave request changes the room event graph or the room's
\* membership, however many make_leave requests are served.
C13_DraftLeaveHasNoEffect ==
    /\ [](\A p \in Procs :
            req[p].op = "make" =>
               /\ ~Called(p, "SendEvents")
               /\ ~Called(p, "VerifyJSONs")
               /\ sent[p] = NoSend
               /\ pc[p] \notin {"sl_version", "sl_verify", "sl_send"})
    /\ [][(\E p \in Procs : req'[p].op = "make" /\ <<pc[p], req[p]>> # <<pc'[p], req'[p]>>) =>
             /\ persisted' = persisted
             /\ joined' = joined]_vars

\* A second successful make_leave with the event graph still empty.
C13_Witness ==
    \E p \in Procs :
       /\ MakeDone(p) /\ resp[p].code = 200
       /\ nreq >= 2
       /\ persisted = {}

\* p's request is a send_leave of a valid signed leave: a room with a
\* version, an event that agrees with the path and the caller, is signed by
\* its origin and is an m.room.member leave.
ValidSubmission(p) ==
    /\ req[p].op = "send"
    /\ RoomVersionOf(req[p].roomID) # NoVersion
    /\ req[p].content.json
    /\ Body(p).room_id = req[p].roomID
    /\ Body(p).event_id = req[p].eventID
    /\ Body(p).origin = req[p].origin
    /\ Body(p).sig = "valid"
    /\ Body(p).type = MRoomMember
    /\ Body(p).membership = Leave

\* No call p made failed in transport.
NoTransportError(p) == \A i \in 1..Len(calls[p]) : calls[p][i].err \notin TransportErrors

\* C14: SubmitLeave is idempotent.  When a valid signed leave is submitted
\* again (after or while another submission of it is served) and the event
\* is already in the event graph, the request ends in success (the empty
\* 200) unless a collaborator call fails in transport, and the step that
\* ends it changes neither the event graph nor the room's membership: there
\* is one persisted event and no second side effect.
C14_ResubmissionIsNoop ==
    [][\A p \in Procs :
          (/\ ValidSubmission(p)
           /\ pc[p] # "done" /\ pc'[p] = "done"
           /\ Body(p).event_id \in persisted) =>
             /\ persisted' = persisted
             /\ joined' = joined
             /\ NoTransportError(p)' => resp'[p] = EmptyOK]_vars

\* Both slots served the same leave, both answered 200, the event is in the
\* graph once, and the user, who rejoined between the two, is still joined.
C14_Witness ==
    /\ \A p \in Procs : SendDone(p) /\ ValidSubmission(p) /\ resp[p] = EmptyOK
    /\ Body("h1") = Body("h2")
    /\ persisted = {Body("h1").event_id}
    /\ Body("h1").sender \in joined["!r:a.org"]

\* How many times p called fn.
CallCount(p, fn) == Cardinality({i \in 1..Len(calls[p]) : calls[p][i].fn = fn})

\* The fields of an event that the request body carries.
Payload(ev) ==
    <<ev.room_id, ev.event_id, ev.origin, ev.sender, ev.state_key, ev.type,
      ev.membership, ev.sig>>

\* C15: a successful SubmitLeave made exactly one call to the Event
\* Ingestion Service, with exactly one event, the one parsed from the
\* request body, sent as the local server (cfg.Matrix.ServerName, not the
\* calling server) and with no transaction ID or further destination; the
\* success response is the empty acknowledgment.
C15_OneIngestionCallAsLocalServer ==
    \A p \in Procs :
       (SendDone(p) /\ resp[p].code = 200) =>
          /\ CallCount(p, "SendEvents") = 1
          /\ Len(sent[p].events) = 1
          /\ Payload(sent[p].events[1]) = Payload(Body(p))
          /\ sent[p].sendAsServer = ServerName
          /\ sent[p].sendAsServer # req[p].origin
          /\ sent[p].txnID = Nil
          /\ resp[p] = EmptyOK

C15_Witness ==
    \E p \in Procs :
       /\ SendDone(p) /\ resp[p].code = 200
       /\ req[p].origin = "c.org"
       /\ Body(p).sender = UserC
       /\ sent[p].sendAsServer = "a.org"
       /\ Body(p).event_id \in persisted

\* The errors p's calls returned.
ErrorsSeen(p) == {calls[p][i].err : i \in 1..Len(calls[p])} \ {Nil}

\* C16: a request that ends in InternalFailure (a 500) gets the one fixed
\* internal-server-error response: the response is the same whatever error
\* value the failing collaborator returned, and no part of its message is an
\* error of a collaborator.
C16_InternalFailureIsOpaque ==
    \A p \in Procs :
       (pc[p] = "done" /\ resp[p].code = 500) =>
          /\ ErrorsSeen(p) # {}
          /\ resp[p] = InternalServerError
          /\ \A i \in 1..Len(resp[p].msg) : resp[p].msg[i] \notin ErrorsSeen(p)

\* The roomserver rejected the event with a reason; the caller gets the
\* fixed response.
C16_Witness ==
    \E p \in Procs :
       /\ SendDone(p) /\ resp[p].code = 500
       /\ ErrOf(p, "SendEvents") = ErrNotAMember
       /\ resp[p].msg = <<"Internal Server Error">>

\* C17: a request resolves the room version once and uses that one version
\* throughout.  In SubmitLeave the version the body was parsed under is the
\* version attached to the event handed to ingestion, and both are what the
\* resolver returned for the request's room; in DraftLeave the room_version
\* of the success response is what the resolver returned.
C17_OneRoomVersionPerRequest ==
    \A p \in Procs :
       /\ CallCount(p, "QueryRoomVersionForRoom") <= 1
       /\ (req[p].op = "send" /\ Called(p, "SendEvents")) =>
             /\ verRes[p] = RoomVersionOf(req[p].roomID)
             /\ verRes[p] # NoVersion
             /\ event[p].room_version = verRes[p]
             /\ sent[p].events[1].room_version = event[p].room_version
       /\ (MakeDone(p) /\ resp[p].code = 200) =>
             /\ verRes[p] = RoomVersionOf(req[p].roomID)
             /\ resp[p].room_version = verRes[p]
             /\ resp[p].room_version # NoVersion

\* A leave of the version 5 room reached ingestion headered as version 5.
C17_Witness ==
    \E p \in Procs :
       /\ SendDone(p) /\ Called(p, "SendEvents")
       /\ req[p].roomID = "!s:a.org"
       /\ event[p].room_version = "5"
       /\ sent[p].events[1].room_version = "5"

\* The external collaborators of the two handlers.
Collaborators == {"QueryRoomVersionForRoom", "VerifyJSONs", "BuildEvent", "SendEvents"}

\* C18: no operation retries.  Within one request each collaborator is
\* called at most once, and a call that returned an error is the last call
\* of the request: the request is over and its response is a failure.
C18_NoRetry ==
    \A p \in Procs :
       /\ \A fn \in Collaborators : CallCount(p, fn) <= 1
       /\ \A i \in 1..Len(calls[p]) :
             calls[p][i].err # Nil =>
                /\ i = Len(calls[p])
                /\ pc[p] = "done"
                /\ resp[p].code \in {400, 403, 404, 500}

\* A later request whose ingestion call failed in transport: five calls, each
\* made once, then the 500.
C18_Witness ==
    \E p \in Procs :
       /\ SendDone(p)
       /\ nreq >= 2
       /\ ErrOf(p, "SendEvents") \in TransportErrors
       /\ Trace(p) = <<"QueryRoomVersionForRoom", "NewEventFromUntrustedJSON", "VerifyJSONs",
                       "Membership", "SendEvents">>
       /\ resp[p].code = 500

\* The request context of p was cancelled while a collaborator call was
\* pending: the call returned the context's error.
Cancelled(p) == "context canceled" \in ErrorsSeen(p)

\* C19: when the request context is cancelled while a collaborator call is
\* pending (the final ingestion call included), the request ends there with
\* a failure response and has persisted nothing: no step of a handler before
\* the ingestion step changes the event graph, and an ingestion step that
\* fails changes neither the event graph nor the membership.  No step of a
\* DraftLeave request, cancelled or not, changes them.
C19_CancelledPersistsNothing ==
    /\ [](\A p \in Procs :
            Cancelled(p) =>
               /\ pc[p] = "done"
               /\ calls[p][Len(calls[p])].err = "context canceled"
               /\ resp[p].code \in {400, 500})
    /\ [][\A p \in Procs :
            (pc'[p] # pc[p] /\ (pc[p] # "sl_send" \/ Cancelled(p)')) =>
               /\ persisted' = persisted
               /\ joined' = joined]_vars

\* The ingestion call of a leave the room would have taken was cancelled:
\* the caller got a 500, the event is not in the graph and the user is
\* still joined.
C19_Witness ==
    \E p \in Procs :
       /\ SendDone(p) /\ FullyValidated(p)
       /\ ErrOf(p, "SendEvents") = "context canceled"
       /\ resp[p].code = 500
       /\ Body(p).event_id \notin persisted
       /\ Body(p).sender \in joined[Body(p).room_id]

\* A user ID of the shape @user:domain: the sigil, a localpart, the first
\* ':' and a domain after it.
WellFormed(id) ==
    /\ Len(id) >= 4
    /\ id[1] = "@"
    /\ FirstColon(id) > 2
    /\ FirstColon(id) < Len(id)

\* A user ID without the '@' sigil in front or without any ':'.
LacksSigilOrColon(id) ==
    \/ Len(id) = 0
    \/ id[1] # "@"
    \/ \A i \in 1..Len(id) : id[i] # ":"

\* What follows the first ':' of an ID.
AfterColon(id) == [i \in 1..(Len(id) - FirstColon(id)) |-> id[FirstColon(id) + i]]

\* C20 as claimed: DraftLeave for a user ID that is not of the @user:domain
\* shape fails with the bad-request invalid-user-ID error, not with
\* OriginMismatch, before the room state is read and before the dry run; an
\* event is built and checked only for a well-formed user ID whose domain is
\* the calling server.
C20_MalformedUserIsBadRequest ==
    \A p \in Procs :
       /\ (MakeDone(p) /\ ~WellFormed(req[p].userID)) =>
             /\ Kind(resp[p]) = "InvalidUserID"
             /\ ~Called(p, "BuildEvent")
             /\ ~Called(p, "Allowed")
       /\ (req[p].op = "make" /\ Called(p, "BuildEvent")) =>
             /\ WellFormed(req[p].userID)
             /\ AfterColon(req[p].userID) = <<req[p].origin>>

\* C20 as amended: DraftLeave for a user ID that does not start with '@' or
\* holds no ':' fails, once the room version resolved, with the bad-request
\* invalid-user-ID error (400, not the 403 of OriginMismatch) before the
\* room state is read and before the dry run, and with InternalFailure when
\* the room version query fails.  An ID that starts with '@' and holds a ':'
\* passes the shape check even with an empty localpart or domain; an event
\* is built and checked only for such an ID whose part after the first ':'
\* is the calling server.
C20_UnsplittableUserIsBadRequest ==
    \A p \in Procs :
       /\ (MakeDone(p) /\ LacksSigilOrColon(req[p].userID)) =>
             /\ ErrOf(p, "QueryRoomVersionForRoom") = Nil =>
                   /\ Kind(resp[p]) = "InvalidUserID"
                   /\ resp[p].code = 400
             /\ ErrOf(p, "QueryRoomVersionForRoom") # Nil =>
                   Kind(resp[p]) = "InternalFailure"
             /\ ~Called(p, "BuildEvent")
             /\ ~Called(p, "Allowed")
             /\ ~queryRes[p].read
             /\ event[p] = NoEvent
       /\ (req[p].op = "make" /\ (pc[p] = "ml_build" \/ Called(p, "BuildEvent"))) =>
             /\ ~LacksSigilOrColon(req[p].userID)
             /\ AfterColon(req[p].userID) = <<req[p].origin>>

\* An ID without a ':' for the room with state, sent by the server its
\* localpart would belong to.
C20_Witness ==
    \E p \in Procs :
       /\ MakeDone(p)
       /\ req[p].userID = NoDomainUser
       /\ req[p].roomID = "!r:a.org"
       /\ Kind(resp[p]) = "InvalidUserID"
       /\ Trace(p) = <<"QueryRoomVersionForRoom", "SplitID">>

====
